---- MODULE Spec2Model ----
(***************************************************************************)
(* Gulf Global Tours API (src/main.py, src/schemas.py).                    *)
(*                                                                         *)
(* The document store holds five collections (trip, faq, booking, review,  *)
(* inquiry).  Every request handler is run by one of the request slots in  *)
(* Procs; a handler that touches the store more than once (seed,           *)
(* create_booking) is split at its store operations, so that two requests  *)
(* interleave exactly where two HTTP requests can.                         *)
(*                                                                         *)
(* A document is a function from field names to values; a field that the   *)
(* document does not have is absent from its DOMAIN (dict.get).            *)
(***************************************************************************)
EXTENDS Integers, Sequences, FiniteSets, TLC

VARIABLES trip, faq, booking, review, inquiry, pc, req, snap, last, seeded

vars == <<trip, faq, booking, review, inquiry, pc, req, snap, last, seeded>>

colls == <<trip, faq, booking, review, inquiry>>

(* ------------------------------ bounds --------------------------------- *)

\* at most this many documents are written by /book, /inquire and /review
MaxWrites == 2

\* longest FAQ collection enumerated for the listing (SpecFaq)
MaxFaqs == 3

\* the request slots: two requests can be in flight at once
Procs == {1, 2}

(* --------------------------- python helpers ---------------------------- *)

\* Python's None
None == "None"

\* dict.get(key, default)
Get(d, key, default) == IF key \in DOMAIN d THEN d[key] ELSE default

\* str(ObjectId): the identifier rendered as a plain string
Str(o) == ToString(o.oid)

\* the identifier the store generates for the n-th document of a collection
ObjectId(coll, n) == [oid |-> <<coll, n>>]

\* insert_one / insert_many: the store appends the documents in order and
\* gives each one its _id
InsertMany(coll, docs, new) ==
  docs \o [i \in 1..Len(new) |-> new[i] @@ ("_id" :> ObjectId(coll, Len(docs) + i))]

\* the first n elements of a sequence (cursor.limit(n))
Take(s, n) == IF Len(s) <= n THEN s ELSE SubSeq(s, 1, n)

\* database.get_documents(collection, filter = {}, limit): the documents in
\* store order, at most `limit` of them (limit = 0: no limit)
get_documents(docs, limit) == IF limit = 0 THEN docs ELSE Take(docs, limit)

\* for f in docs: f["_id"] = str(f["_id"])
Jsonify(docs) == [i \in 1..Len(docs) |-> [docs[i] EXCEPT !["_id"] = Str(docs[i]["_id"])]]

(* ------------------------------ schemas -------------------------------- *)

\* Trip(...).model_dump() of the two literal trips of seed()
\* (floats that are whole are written as integers; the typographic
\* apostrophe of the sunset description is written ')
DimaniyatTrip ==
  [title |-> "Dimaniyat Island Day Trip",
   trip_type |-> "dimaniyat",
   description |-> "Explore the pristine Dimaniyat Islands aboard our 11.3m Looker 370 glass-bottom boat. Snorkel vibrant reefs, spot sea turtles, and enjoy a beach stop.",
   location |-> "Dimaniyat Islands, Oman",
   price_per_person |-> 35,
   capacity |-> 20,
   duration_hours |-> 5,
   highlights |-> <<"Snorkeling coral reefs", "Sea turtles and marine life",
                    "Beachtime on a protected island", "Glass-bottom reef viewing">>,
   includes |-> <<"Captain & crew", "Snorkel gear", "Water & soft drinks">>,
   images |-> <<"/images/dimaniyat-1.jpg", "/images/dimaniyat-2.jpg", "/images/looker370.jpg">>,
   is_active |-> TRUE]

SunsetTrip ==
  [title |-> "Muscat Sunset Cruise",
   trip_type |-> "sunset",
   description |-> "A golden-hour cruise along Muscat's coastline aboard our Looker 370. Take in Al Alam Palace, Muttrah Corniche, and dramatic sea cliffs as the sun sets.",
   location |-> "Muscat Coastline, Oman",
   price_per_person |-> 20,
   capacity |-> 10,
   duration_hours |-> 2,
   highlights |-> <<"Golden hour views", "Iconic Muscat landmarks",
                    "Relaxed vibes on calm waters", "Great photo opportunities">>,
   includes |-> <<"Captain & crew", "Water & soft drinks">>,
   images |-> <<"/images/sunset-1.jpg", "/images/sunset-2.jpg", "/images/looker370.jpg">>,
   is_active |-> TRUE]

seed_trips == <<DimaniyatTrip, SunsetTrip>>

\* the four literal FAQ documents of seed()
seed_faqs ==
  << [question |-> "Where do trips depart from?",
      answer |-> "Muscat, Oman. Exact marina details shared upon booking.",
      category |-> "general", order |-> 1],
     [question |-> "How many guests can join?",
      answer |-> "Up to 18-20 for Dimaniyat and 8-10 for sunset trips.",
      category |-> "capacity", order |-> 2],
     [question |-> "What should I bring?",
      answer |-> "Sunscreen, hat, towel, and swimwear. We provide water, soft drinks, and snorkel gear for day trips.",
      category |-> "prep", order |-> 3],
     [question |-> "Is the glass bottom safe?",
      answer |-> "Yes. The Looker 370 is purpose-built with reinforced glass for reef viewing.",
      category |-> "safety", order |-> 4] >>

\* the trip keys a submission may name: the two seeded ones and one that
\* no Trip document carries
TripTypes == {"dimaniyat", "sunset", "unknown"}

\* people_count values submitted for a trip key: the capacity C that seed()
\* gives the trip of that key, and C + 1
PeopleCounts(t) ==
  IF t = DimaniyatTrip.trip_type
    THEN {DimaniyatTrip.capacity, DimaniyatTrip.capacity + 1}
    ELSE {SunsetTrip.capacity, SunsetTrip.capacity + 1}

\* status values submitted (Booking.status is any str): one that the field's
\* description does not list
Statuses == {"paid"}

\* the documented values of Booking.status
DocumentedStatuses == {"pending", "confirmed", "cancelled"}

\* the JSON bodies POSTed to /book; status is optional
BookingSubmissions ==
  UNION { { [trip_type |-> t, name |-> "Ann", email |-> "ann@example.com",
             phone |-> "+968 1", date |-> "2026-01-01", people_count |-> n]
              : n \in PeopleCounts(t) }
          \cup
          { [trip_type |-> t, name |-> "Ann", email |-> "ann@example.com",
             phone |-> "+968 1", date |-> "2026-01-01", people_count |-> n,
             status |-> s]
              : n \in PeopleCounts(t), s \in Statuses }
          : t \in TripTypes }

\* schemas.Booking: the validated model of a submission, with the defaults
\* of the optional fields filled in (people_count >= 1 holds of every
\* submission enumerated)
Booking(raw) ==
  [trip_type |-> raw.trip_type, name |-> raw.name, email |-> raw.email,
   phone |-> raw.phone, date |-> raw.date, people_count |-> raw.people_count,
   notes |-> Get(raw, "notes", None),
   status |-> Get(raw, "status", "pending")]

\* schemas.Review and schemas.Inquiry: one validated submission each
ReviewPayload ==
  [name |-> "Ann", rating |-> 5, comment |-> "Lovely", trip_type |-> None]

InquiryPayload ==
  [name |-> "Ann", email |-> "ann@example.com", subject |-> "Hello", message |-> "Hi"]

(* ----------------------------- responses ------------------------------- *)

\* what a request that reads the store and writes it in a later step saw
\* when it read: the number of documents of the collection it goes on to
\* write (history, kept with the response; the code does not hold it)
NoSnap == <<>>
NoReq == [op |-> "none"]
NoResponse == [op |-> "none", code |-> 0, request |-> NoReq, seen |-> NoSnap]

\* the latest request that returned, with its response
Response(op, request, code, body, seen) ==
  [op |-> op, request |-> request, code |-> code, body |-> body, seen |-> seen]

\* raise HTTPException(status_code, detail)
HTTPException(op, request, code, detail) ==
  Response(op, request, code, [detail |-> detail], NoSnap)

(* -------------------------------- Init --------------------------------- *)

\* the stores the service may be started on: an empty one, and ones that
\* already hold documents (trip_type is a unique key, schemas.py line 13)
Preloaded(coll, docs) == InsertMany(coll, <<>>, docs)

Without(d, key) == [k \in DOMAIN d \ {key} |-> d[k]]

InitStores ==
  { [trip |-> <<>>, faq |-> <<>>],
    [trip |-> Preloaded("trip", <<DimaniyatTrip, [SunsetTrip EXCEPT !.is_active = FALSE]>>),
     faq |-> <<>>],
    [trip |-> Preloaded("trip", <<Without(SunsetTrip, "capacity")>>),
     faq |-> Preloaded("faq", <<seed_faqs[2]>>)] }

Init ==
  /\ \E s \in InitStores : trip = s.trip /\ faq = s.faq
  /\ booking = <<>>
  /\ review = <<>>
  /\ inquiry = <<>>
  /\ pc = [p \in Procs |-> "idle"]
  /\ req = [p \in Procs |-> NoReq]
  /\ snap = [p \in Procs |-> NoSnap]
  /\ last = NoResponse
  /\ seeded = FALSE

(* ------------------------------- seed ---------------------------------- *)

InSeed(p) == pc[p] \in {"seed_insert_trips", "seed_count_faqs", "seed_insert_faqs"}

\* a seed() that does not look at the count of the Trip collection
SeedCountTripsUnchecked(p) ==
  /\ pc[p] = "idle"
  /\ pc' = [pc EXCEPT ![p] = "seed_insert_trips"]
  /\ snap' = [snap EXCEPT ![p] = <<Len(trip)>>]
  /\ UNCHANGED <<colls, req, last, seeded>>

\* main.py 72-73: trips_col.count_documents({}) == 0
SeedCountTrips(p) ==
  /\ pc[p] = "idle"
  /\ pc' = [pc EXCEPT ![p] = IF Len(trip) = 0 THEN "seed_insert_trips"
                             ELSE "seed_count_faqs"]
  /\ snap' = [snap EXCEPT ![p] = <<Len(trip)>>]
  /\ UNCHANGED <<colls, req, last, seeded>>

\* a seed() whose check and insert are one atomic step of the store
SeedInsertTripsIfEmpty(p) ==
  /\ pc[p] = "seed_insert_trips"
  /\ trip' = IF Len(trip) = 0 THEN InsertMany("trip", trip, seed_trips) ELSE trip
  /\ pc' = [pc EXCEPT ![p] = "seed_count_faqs"]
  /\ UNCHANGED <<faq, booking, review, inquiry, req, snap, last, seeded>>

\* main.py 118: trips_col.insert_many(seed_trips)
SeedInsertTrips(p) ==
  /\ pc[p] = "seed_insert_trips"
  /\ trip' = InsertMany("trip", trip, seed_trips)
  /\ pc' = [pc EXCEPT ![p] = "seed_count_faqs"]
  /\ UNCHANGED <<faq, booking, review, inquiry, req, snap, last, seeded>>

\* return {"status": "ok"}
SeedReturn(p, seen) ==
  /\ pc' = [pc EXCEPT ![p] = "idle"]
  /\ snap' = [snap EXCEPT ![p] = NoSnap]
  /\ last' = Response("seed", NoReq, 200, [status |-> "ok"], seen)
  /\ seeded' = TRUE

\* main.py 121-122: faq_col.count_documents({}) == 0; a non-empty
\* collection skips the insert and the handler returns
SeedCountFaqs(p) ==
  /\ pc[p] = "seed_count_faqs"
  /\ IF Len(faq) = 0
       THEN /\ pc' = [pc EXCEPT ![p] = "seed_insert_faqs"]
            /\ snap' = [snap EXCEPT ![p] = Append(snap[p], 0)]
            /\ UNCHANGED <<last, seeded>>
       ELSE SeedReturn(p, Append(snap[p], Len(faq)))
  /\ UNCHANGED <<colls, req>>

\* main.py 123-130: faq_col.insert_many([...]); return {"status": "ok"}
SeedInsertFaqs(p) ==
  /\ pc[p] = "seed_insert_faqs"
  /\ faq' = InsertMany("faq", faq, seed_faqs)
  /\ SeedReturn(p, snap[p])
  /\ UNCHANGED <<trip, booking, review, inquiry, req>>

(* ---------------------------- create_booking --------------------------- *)

\* the documents written by /book, /inquire and /review so far, and the
\* bookings already past the capacity check
Writes == Len(booking) + Len(review) + Len(inquiry)
            + Cardinality({q \in Procs : pc[q] = "book_insert"})

\* a find_one whose filter leaves out is_active
ActiveTripsAnyStatus(trip_type) ==
  {i \in 1..Len(trip) : trip[i].trip_type = trip_type}

\* main.py 164: the Trip documents find_one's filter matches
ActiveTrips(trip_type) ==
  {i \in 1..Len(trip) : trip[i].trip_type = trip_type /\ trip[i].is_active = TRUE}

\* a capacity check that turns away a party of exactly the capacity
OverCapacityInclusive(payload, t) == payload.people_count >= Get(t, "capacity", 0)

\* a capacity check that lets one guest too many through
OverCapacityOffByOne(payload, t) == payload.people_count > Get(t, "capacity", 0) + 1

\* main.py 167: payload.people_count > trip.get("capacity", 0)
OverCapacity(payload, t) == payload.people_count > Get(t, "capacity", 0)

\* main.py 168: f"Maximum capacity is {trip.get('capacity')} for this trip"
CapacityDetail(t) ==
  "Maximum capacity is "
    \o (IF "capacity" \in DOMAIN t THEN ToString(t.capacity) ELSE None)
    \o " for this trip"

\* database.create_document(collection_name, data): insert_one of the
\* model's fields; the new collection and str(inserted_id)
create_document(coll, docs, data) ==
  [docs |-> InsertMany(coll, docs, <<data>>),
   id |-> Str(ObjectId(coll, Len(docs) + 1))]

\* a handler that has stored the submission before it validates it
RaiseAfterWrite(p, raw, code, detail) ==
  /\ last' = HTTPException("book", raw, code, detail)
  /\ booking' = InsertMany("booking", booking, <<Booking(raw)>>)
  /\ UNCHANGED <<pc, req, snap>>

\* main.py 166, 168: raise HTTPException(...): the handler ends there
Raise(p, raw, code, detail) ==
  /\ last' = HTTPException("book", raw, code, detail)
  /\ UNCHANGED <<booking, pc, req, snap>>

\* main.py 162-168: find_one, then the two checks; a submission that
\* passes both goes on to the insert
BookFind(p) ==
  /\ pc[p] = "idle"
  /\ \E raw \in BookingSubmissions :
       LET payload == Booking(raw) IN
       IF ActiveTrips(payload.trip_type) = {}
         THEN Raise(p, raw, 404, "Trip not found")
         ELSE \E i \in ActiveTrips(payload.trip_type) :
                IF OverCapacity(payload, trip[i])
                  THEN Raise(p, raw, 400, CapacityDetail(trip[i]))
                  ELSE /\ Writes < MaxWrites
                       /\ pc' = [pc EXCEPT ![p] = "book_insert"]
                       /\ req' = [req EXCEPT ![p] = [op |-> "book", raw |-> raw,
                                                     payload |-> payload]]
                       /\ snap' = [snap EXCEPT ![p] = <<Len(booking)>>]
                       /\ UNCHANGED <<booking, last>>
  /\ UNCHANGED <<trip, faq, review, inquiry, seeded>>

\* the guests of the bookings stored for a trip key
RECURSIVE Booked(_, _)
Booked(docs, trip_type) ==
  IF docs = <<>> THEN 0
  ELSE (IF Head(docs).trip_type = trip_type THEN Head(docs).people_count ELSE 0)
         + Booked(Tail(docs), trip_type)

\* an insert that checks the guests already booked against the capacity
\* again, in one step with the write
BookInsertSerialized(p) ==
  /\ pc[p] = "book_insert"
  /\ LET payload == req[p].payload
         made == create_document("booking", booking, payload)
         room == \E i \in 1..Len(trip) :
                   /\ trip[i].trip_type = payload.trip_type
                   /\ Booked(booking, payload.trip_type) + payload.people_count
                        <= Get(trip[i], "capacity", 0)
     IN IF room
          THEN /\ booking' = made.docs
               /\ last' = Response("book", req[p].raw, 200,
                                   [status |-> "received", id |-> made.id], snap[p])
          ELSE /\ booking' = booking
               /\ last' = HTTPException("book", req[p].raw, 400, "Trip is full")
  /\ pc' = [pc EXCEPT ![p] = "idle"]
  /\ req' = [req EXCEPT ![p] = NoReq]
  /\ snap' = [snap EXCEPT ![p] = NoSnap]
  /\ UNCHANGED <<trip, faq, review, inquiry, seeded>>

\* an insert that replaces the booking the same guest has already made
BookInsertUpsert(p) ==
  /\ pc[p] = "book_insert"
  /\ LET payload == req[p].payload
         made == create_document("booking", booking, payload)
         same == {i \in 1..Len(booking) : booking[i].email = payload.email}
     IN IF same = {}
          THEN /\ booking' = made.docs
               /\ last' = Response("book", req[p].raw, 200,
                                   [status |-> "received", id |-> made.id], snap[p])
          ELSE \E i \in same :
                 /\ booking' = [booking EXCEPT ![i] = payload @@ ("_id" :> booking[i]["_id"])]
                 /\ last' = Response("book", req[p].raw, 200,
                                     [status |-> "received", id |-> Str(booking[i]["_id"])],
                                     snap[p])
  /\ pc' = [pc EXCEPT ![p] = "idle"]
  /\ req' = [req EXCEPT ![p] = NoReq]
  /\ snap' = [snap EXCEPT ![p] = NoSnap]
  /\ UNCHANGED <<trip, faq, review, inquiry, seeded>>

\* main.py 170-171: booking_id = create_document("booking", payload);
\* return {"status": "received", "id": booking_id}
BookInsert(p) ==
  /\ pc[p] = "book_insert"
  /\ LET made == create_document("booking", booking, req[p].payload) IN
       /\ booking' = made.docs
       /\ last' = Response("book", req[p].raw, 200,
                           [status |-> "received", id |-> made.id], snap[p])
  /\ pc' = [pc EXCEPT ![p] = "idle"]
  /\ req' = [req EXCEPT ![p] = NoReq]
  /\ snap' = [snap EXCEPT ![p] = NoSnap]
  /\ UNCHANGED <<trip, faq, review, inquiry, seeded>>

(* ----------------------- inquiries and reviews ------------------------- *)

\* main.py 174-177
create_inquiry(p) ==
  /\ pc[p] = "idle"
  /\ Writes < MaxWrites
  /\ LET made == create_document("inquiry", inquiry, InquiryPayload) IN
       /\ inquiry' = made.docs
       /\ last' = Response("inquire", InquiryPayload, 200,
                           [status |-> "received", id |-> made.id], NoSnap)
  /\ UNCHANGED <<trip, faq, booking, review, pc, req, snap, seeded>>

\* main.py 181-184
add_review(p) ==
  /\ pc[p] = "idle"
  /\ Writes < MaxWrites
  /\ LET made == create_document("review", review, ReviewPayload) IN
       /\ review' = made.docs
       /\ last' = Response("review", ReviewPayload, 200,
                           [status |-> "received", id |-> made.id], NoSnap)
  /\ UNCHANGED <<trip, faq, booking, inquiry, pc, req, snap, seeded>>

(* --------------------------- list endpoints ---------------------------- *)

\* limit of get_documents("faq", {}, limit=100)
FaqLimit == 100

\* limit of get_documents("review", {}, limit=50)
ReviewLimit == 50

\* the code points of the strings that are compared (Python compares str
\* values code point by code point)
CodePoints(s) ==
  CASE s = "" -> <<>>
    [] s = "a" -> <<97>>
    [] s = "b" -> <<98>>
    [] s = "Where do trips depart from?" ->
         <<87, 104, 101, 114, 101, 32, 100, 111, 32, 116, 114, 105, 112, 115, 32,
           100, 101, 112, 97, 114, 116, 32, 102, 114, 111, 109, 63>>
    [] s = "How many guests can join?" ->
         <<72, 111, 119, 32, 109, 97, 110, 121, 32, 103, 117, 101, 115, 116, 115,
           32, 99, 97, 110, 32, 106, 111, 105, 110, 63>>
    [] s = "What should I bring?" ->
         <<87, 104, 97, 116, 32, 115, 104, 111, 117, 108, 100, 32, 73, 32, 98,
           114, 105, 110, 103, 63>>
    [] s = "Is the glass bottom safe?" ->
         <<73, 115, 32, 116, 104, 101, 32, 103, 108, 97, 115, 115, 32, 98, 111,
           116, 116, 111, 109, 32, 115, 97, 102, 101, 63>>

\* a < b for two sequences of code points: a is smaller where they first
\* differ, or a is a proper prefix of b
SeqLess(a, b) ==
  \/ \E k \in 1..Len(b) :
        /\ k <= Len(a)
        /\ a[k] < b[k]
        /\ \A j \in 1..(k - 1) : a[j] = b[j]
  \/ /\ Len(a) < Len(b)
     /\ \A j \in 1..Len(a) : a[j] = b[j]

\* a < b for two Python strings
StrLess(a, b) == SeqLess(CodePoints(a), CodePoints(b))

\* a sort key without the tie-break on the question
FaqKeyOrderOnly(x) == <<Get(x, "order", 0), "">>

\* main.py 148: key=lambda x: (x.get("order", 0), x.get("question", ""))
FaqKey(x) == <<Get(x, "order", 0), Get(x, "question", "")>>

\* j < k for two keys (Python's tuple comparison)
KeyLess(j, k) == j[1] < k[1] \/ (j[1] = k[1] /\ StrLess(j[2], k[2]))

\* list.sort(key=...): a stable sort; the element at index i goes behind
\* every element with a smaller key and every earlier element with an
\* equal key
SortRank(key, i) ==
  Cardinality({j \in DOMAIN key :
                 \/ KeyLess(key[j], key[i])
                 \/ (j < i /\ ~KeyLess(key[i], key[j]))}) + 1

Place(s, rank) == [k \in 1..Len(s) |-> s[CHOOSE i \in 1..Len(s) : rank[i] = k]]

\* (<<>> \o f makes the function a tuple, computed once)
Ranks(key) == <<>> \o [i \in DOMAIN key |-> SortRank(key, i)]

Sort(s) == Place(s, Ranks(<<>> \o [i \in 1..Len(s) |-> FaqKey(s[i])]))

\* main.py 144-149: the body get_faqs returns
FaqListing(docs) == Sort(Jsonify(get_documents(docs, FaqLimit)))

\* main.py 134-139
get_trips(p) ==
  /\ pc[p] = "idle"
  /\ last' = Response("trips", NoReq, 200, Jsonify(get_documents(trip, 0)), NoSnap)
  /\ UNCHANGED <<colls, pc, req, snap, seeded>>

\* main.py 142-149
get_faqs(p) ==
  /\ pc[p] = "idle"
  /\ last' = Response("faqs", NoReq, 200, FaqListing(faq), NoSnap)
  /\ UNCHANGED <<colls, pc, req, snap, seeded>>

\* main.py 152-157
get_reviews(p) ==
  /\ pc[p] = "idle"
  /\ last' = Response("reviews", NoReq, 200, Jsonify(get_documents(review, ReviewLimit)), NoSnap)
  /\ UNCHANGED <<colls, pc, req, snap, seeded>>

(* --------------------------- specifications ---------------------------- *)

Next ==
  \E p \in Procs :
    \/ SeedCountTrips(p)
    \/ SeedInsertTrips(p)
    \/ SeedCountFaqs(p)
    \/ SeedInsertFaqs(p)
    \/ BookFind(p)
    \/ BookInsert(p)
    \/ create_inquiry(p)
    \/ add_review(p)
    \/ get_trips(p)
    \/ get_faqs(p)
    \/ get_reviews(p)

\* any interleaving of the requests of the two slots
Spec == Init /\ [][Next]_vars

\* a /seed request that begins while no other /seed request is in flight
SeedCountTripsAlone(p) ==
  /\ \A q \in Procs \ {p} : ~InSeed(q)
  /\ SeedCountTrips(p)

NextSeq ==
  \E p \in Procs :
    \/ SeedCountTripsAlone(p)
    \/ SeedInsertTrips(p)
    \/ SeedCountFaqs(p)
    \/ SeedInsertFaqs(p)
    \/ BookFind(p)
    \/ BookInsert(p)
    \/ create_inquiry(p)
    \/ add_review(p)
    \/ get_trips(p)
    \/ get_faqs(p)
    \/ get_reviews(p)

\* the same requests, with the /seed calls made one after the other
SpecSeq == Init /\ [][NextSeq]_vars

\* FAQ documents as the store may hold them: order and question may be
\* missing (the store is schemaless)
FaqOrders == {-1, 0, 1}
FaqQuestions == {"", "a", "b"}

FaqDocs ==
  { [answer |-> "x", category |-> "general"] }
  \cup { [answer |-> "x", category |-> "general", order |-> o] : o \in FaqOrders }
  \cup { [answer |-> "x", category |-> "general", question |-> q] : q \in FaqQuestions }
  \cup { [answer |-> "x", category |-> "general", order |-> o, question |-> q]
           : o \in FaqOrders, q \in FaqQuestions }

FaqDoc(o, q) == [answer |-> "x", category |-> "general", order |-> o, question |-> q]

\* orders [3, 1, 1, 2], the two order-1 questions "b" then "a"
ExampleFaqs == <<FaqDoc(3, "a"), FaqDoc(1, "b"), FaqDoc(1, "a"), FaqDoc(2, "a")>>

\* a collection longer than the listing's limit, in descending order
LongFaqs ==
  [i \in 1..(FaqLimit + 2) |-> FaqDoc(FaqLimit + 2 - i, IF i % 2 = 0 THEN "a" ELSE "b")]

RECURSIVE SeqsUpTo(_, _)
SeqsUpTo(S, n) ==
  IF n = 0 THEN {<<>>}
  ELSE LET shorter == SeqsUpTo(S, n - 1) IN
       shorter \cup {Append(s, x) : s \in shorter, x \in S}

FaqStores ==
  {Preloaded("faq", s) : s \in SeqsUpTo(FaqDocs, MaxFaqs) \cup {ExampleFaqs, LongFaqs}}

InitFaq ==
  /\ faq \in FaqStores
  /\ trip = <<>>
  /\ booking = <<>>
  /\ review = <<>>
  /\ inquiry = <<>>
  /\ pc = [p \in Procs |-> "idle"]
  /\ req = [p \in Procs |-> NoReq]
  /\ snap = [p \in Procs |-> NoSnap]
  /\ last = NoResponse
  /\ seeded = FALSE

NextFaq == \E p \in Procs : get_faqs(p)

\* GET /faqs on every enumerated FAQ collection
SpecFaq == InitFaq /\ [][NextFaq]_vars

(* ------------------------------ properties ----------------------------- *)

\* a step in which a /book request returns
BookReturns == last' # last /\ last'.op = "book"

\* the Trip documents that are active and carry the trip key
Matching(trip_type) ==
  {i \in 1..Len(trip) : trip[i].is_active /\ trip[i].trip_type = trip_type}

\* the fields of a stored Booking document are those of the submission
Stores(doc, raw) ==
  /\ doc.trip_type = raw.trip_type
  /\ doc.people_count = raw.people_count
  /\ doc.name = raw.name
  /\ doc.email = raw.email
  /\ doc.phone = raw.phone
  /\ doc.date = raw.date

\* C1: when a /book request returns and an active Trip with capacity C
\* carries its trip_type, then with people_count <= C the response is
\* {status: "received", id} and the booking collection has grown by the
\* submitted booking under that id, and with people_count > C the response
\* is the 400 "Maximum capacity is C for this trip".
C1_CapacityRule ==
  [][BookReturns =>
       \A i \in Matching(last'.request.trip_type) :
         "capacity" \in DOMAIN trip[i] =>
           LET C == trip[i].capacity
               n == last'.request.people_count
           IN  /\ n <= C =>
                    /\ last'.code = 200
                    /\ last'.body.status = "received"
                    /\ Len(booking') = Len(booking) + 1
                    /\ SubSeq(booking', 1, Len(booking)) = booking
                    /\ Stores(booking'[Len(booking')], last'.request)
                    /\ last'.body.id = ToString(booking'[Len(booking')]["_id"].oid)
               /\ n > C =>
                    /\ last'.code = 400
                    /\ last'.body.detail
                         = "Maximum capacity is " \o ToString(C) \o " for this trip"
    ]_vars

\* a booking of exactly the capacity of its active trip has been received
C1_Witness ==
  /\ last.op = "book"
  /\ last.code = 200
  /\ \E i \in Matching(last.request.trip_type) :
       /\ "capacity" \in DOMAIN trip[i]
       /\ trip[i].capacity = last.request.people_count
  /\ \E k \in 1..Len(booking) : ToString(booking[k]["_id"].oid) = last.body.id

\* C2: when a /book request returns and no active Trip carries its
\* trip_type, the response is the 404 "Trip not found", whatever the
\* people_count.
C2_NotFound ==
  [][(BookReturns /\ Matching(last'.request.trip_type) = {}) =>
       /\ last'.code = 404
       /\ last'.body.detail = "Trip not found"
    ]_vars

\* a 404 for a trip key whose only Trip is inactive and smaller than the party
C2_Witness ==
  /\ last.op = "book"
  /\ last.code = 404
  /\ \E i \in 1..Len(trip) :
       /\ trip[i].trip_type = last.request.trip_type
       /\ ~trip[i].is_active
       /\ trip[i].capacity < last.request.people_count

\* C3: a /book request that returns 404 or 400 leaves the five collections
\* as they were.
C3_NoWriteOnFailure ==
  [][(BookReturns /\ last'.code \in {400, 404}) => UNCHANGED colls]_vars

\* a booking is turned away for its size while another one is stored
C3_Witness ==
  /\ last.op = "book"
  /\ last.code = 400
  /\ Len(booking) > 0

\* C4: every stored booking has people_count <= the capacity of an active
\* Trip of its trip_type.
C4_BookingWithinCapacity ==
  \A k \in 1..Len(booking) :
    \E i \in Matching(booking[k].trip_type) :
      /\ "capacity" \in DOMAIN trip[i]
      /\ booking[k].people_count <= trip[i].capacity

\* two bookings are stored, one of them of exactly the capacity
C4_Witness ==
  /\ Len(booking) = 2
  /\ \E k \in 1..Len(booking) :
       \E i \in Matching(booking[k].trip_type) :
         booking[k].people_count = trip[i].capacity

\* the guests of the stored bookings of a trip key
RECURSIVE Guests(_, _)
Guests(k, trip_type) ==
  IF k = 0 THEN 0
  ELSE (IF booking[k].trip_type = trip_type THEN booking[k].people_count ELSE 0)
         + Guests(k - 1, trip_type)

\* C5: nothing orders two /book requests: a request that has passed the
\* capacity check stores its booking whatever has been stored since, and a
\* request is turned away with 400 only for its own people_count.
C5_Unserialized ==
  [][/\ \A p \in Procs :
          (pc[p] = "book_insert" /\ pc'[p] # "book_insert") =>
            /\ Len(booking') = Len(booking) + 1
            /\ Stores(booking'[Len(booking')], req[p].raw)
            /\ last'.code = 200
     /\ (BookReturns /\ last'.code = 400) =>
          \A i \in Matching(last'.request.trip_type) :
            "capacity" \in DOMAIN trip[i] =>
              last'.request.people_count > trip[i].capacity
    ]_vars

\* the trip is overbooked: the request that returned last began when no
\* booking was stored, two bookings of one trip are stored now, and their
\* guests exceed the capacity
C5_Overbooked ==
  /\ last.op = "book"
  /\ last.code = 200
  /\ last.seen = <<0>>
  /\ Len(booking) = 2
  /\ booking[1].trip_type = booking[2].trip_type
  /\ \E i \in Matching(booking[1].trip_type) :
       /\ booking[1].people_count <= trip[i].capacity
       /\ booking[2].people_count <= trip[i].capacity
       /\ Guests(Len(booking), booking[1].trip_type) > trip[i].capacity

\* no two documents of a collection agree on a field
Distinct(docs, field) ==
  \A i, j \in 1..Len(docs) : docs[i][field] = docs[j][field] => i = j

\* a /seed request that met an empty store has left two trips and four FAQs
SeedExact ==
  (last.op = "seed" /\ last.seen = <<0, 0>>) =>
     /\ Len(trip) = 2
     /\ Distinct(trip, "trip_type")
     /\ Len(faq) = 4
     /\ Distinct(faq, "question")

\* C6: with the /seed calls made one after the other, once a /seed has
\* returned no step changes the trip or the faq collection, and a /seed
\* that met an empty store leaves exactly two Trip and four FAQ documents,
\* no two alike.
C6_SeedIdempotent ==
  [][(seeded => UNCHANGED <<trip, faq>>) /\ SeedExact']_vars

\* a second /seed has returned: it met the two trips and four FAQs of the first
C6_Witness ==
  /\ last.op = "seed"
  /\ last.seen = <<2, 4>>
  /\ seeded
  /\ Len(trip) = 2
  /\ Len(faq) = 4

\* C7: a /seed request that has counted zero documents inserts its records
\* whatever the collection holds by then: the count and the insert are two
\* steps.
C7_SeedCheckThenAct ==
  [][\A p \in Procs :
       /\ (pc[p] = "seed_insert_trips" /\ pc'[p] # pc[p]) => Len(trip') = Len(trip) + 2
       /\ (pc[p] = "seed_insert_faqs" /\ pc'[p] # pc[p]) => Len(faq') = Len(faq) + 4
    ]_vars

\* both /seed requests have inserted: four trips, two of each trip_type,
\* and eight FAQs
C7_Duplicates ==
  /\ Len(trip) = 4
  /\ \A t \in {"dimaniyat", "sunset"} :
       Cardinality({i \in 1..Len(trip) : trip[i].trip_type = t}) = 2
  /\ Len(faq) = 8

\* the (order, question) pair of the claim: a missing order is 0, a missing
\* question the empty string
ListedOrder(x) == IF "order" \in DOMAIN x THEN x.order ELSE 0
ListedQuestion(x) == IF "question" \in DOMAIN x THEN x.question ELSE ""

\* x may stand before y in the listing
InOrder(x, y) ==
  \/ ListedOrder(x) < ListedOrder(y)
  \/ /\ ListedOrder(x) = ListedOrder(y)
     /\ ~SeqLess(CodePoints(ListedQuestion(y)), CodePoints(ListedQuestion(x)))

\* C8: the body of GET /faqs holds the first 100 FAQ documents of the
\* collection (all of them when there are fewer), each exactly once, in
\* ascending order of (order, question).
C8_FaqListing ==
  (last.op = "faqs") =>
     LET out == last.body
         n == IF Len(faq) <= 100 THEN Len(faq) ELSE 100
     IN  /\ Len(out) = n
         /\ Len(out) <= 100
         /\ \A i \in 1..n : \E k \in 1..Len(out) :
              /\ out[k]["_id"] = ToString(faq[i]["_id"].oid)
              /\ [out[k] EXCEPT !["_id"] = faq[i]["_id"]] = faq[i]
         /\ \A j, k \in 1..Len(out) : out[j]["_id"] = out[k]["_id"] => j = k
         /\ \A k \in 1..(Len(out) - 1) : InOrder(out[k], out[k + 1])

\* the listing of orders [3, 1, 1, 2]: the order-1 questions come first,
\* "a" then "b", though the store holds "b" before "a"
C8_Witness ==
  /\ last.op = "faqs"
  /\ Len(faq) = 4
  /\ [k \in 1..4 |-> ListedOrder(faq[k])] = <<3, 1, 1, 2>>
  /\ ListedQuestion(faq[2]) = "b"
  /\ ListedQuestion(faq[3]) = "a"
  /\ [k \in 1..4 |-> ListedOrder(last.body[k])] = <<1, 1, 2, 3>>
  /\ ListedQuestion(last.body[1]) = "a"
  /\ ListedQuestion(last.body[2]) = "b"

\* C9: every stored booking has one of the documented statuses, and
\* "pending" when the submission gave none.
C9_StatusDocumented ==
  [][\A p \in Procs :
       (pc[p] = "book_insert" /\ pc'[p] = "idle") =>
         LET doc == booking'[Len(booking')] IN
         /\ doc.status \in DocumentedStatuses
         /\ "status" \notin DOMAIN req[p].raw => doc.status = "pending"
    ]_vars

\* C10: a step keeps every stored booking as it is, and adds one booking
\* exactly when a /book request stores its submission.
C10_BookingsAppendOnly ==
  [][/\ Len(booking') >= Len(booking)
     /\ SubSeq(booking', 1, Len(booking)) = booking
     /\ Len(booking') <= Len(booking) + 1
     /\ (Len(booking') = Len(booking) + 1)
          <=> (\E p \in Procs : pc[p] = "book_insert" /\ pc'[p] = "idle")
    ]_vars

\* two bookings are stored and a /seed has returned since
C10_Witness ==
  /\ Len(booking) = 2
  /\ last.op = "seed"

====
